---- MODULE Spec2Model ----
(***************************************************************************)
(* Trace ingestion and performance analysis of ytwr/logkit.                *)
(*                                                                         *)
(*   embedded variant   : src/systrace_analysis.py (systrace HTML capture) *)
(*   structured variant : src/trace_analysis.py    (Perfetto trace)        *)
(*   viewer             : src/logkit_ui.py         (live log viewer)        *)
(*                                                                         *)
(* One pass (main) over one capture is modelled as a sequential process    *)
(* whose position is pc.  Python values that may be None are wrapped in    *)
(* records tagged with their Python type, so None, an empty list, an empty *)
(* dict and an empty DataFrame are four different values, as in Python.    *)
(*                                                                         *)
(* Millisecond quantities are floats in the code.  Here they are fixed     *)
(* point numbers with one decimal: the integer n stands for n/10 ms.  Raw  *)
(* timestamps and durations are drawn from multiples of 0.1 ms, on which   *)
(* the conversions below are exact.                                        *)
(***************************************************************************)
EXTENDS Integers, Sequences, FiniteSets, TLC

VARIABLES
    variant,      \* "embedded" | "structured" | "viewer": which program runs
    capture,      \* the capture artifact handed to the pass (never changes)
    threshold,    \* value of the module global FRAME_THRESHOLD during the pass
    pc,           \* position of main
    sched_df,     \* structured: main's sched_df
    frame_df,     \* structured: main's frame_df
    cpu_load,     \* main's cpu_load
    frame_times,  \* main's frame_times
    jank_frames,  \* main's jank_frames
    executed,     \* embedded: eval ran code contained in the capture
    outcome,      \* "running" | "completed" | "returned_early" | "raised"
    report,       \* lines printed so far
    chart,        \* what visualize_data has drawn (None before it ran)
    window,       \* viewer: the CameraAnalyzer object (None in the other programs)
    threads       \* viewer: the QThread objects created so far, oldest first

\* the variables of the two analysis programs
analysis == <<variant, capture, threshold, pc, sched_df, frame_df, cpu_load,
              frame_times, jank_frames, executed, outcome, report, chart>>

vars == <<variant, capture, threshold, pc, sched_df, frame_df, cpu_load,
          frame_times, jank_frames, executed, outcome, report, chart,
          window, threads>>

---------------------------------------------------------------------------
(* Python values *)

None == [py |-> "None"]
List(items) == [py |-> "list", items |-> items]
Dict(items) == [py |-> "dict", items |-> items]
DataFrame(rows) == [py |-> "DataFrame", rows |-> rows]

\* 16.6 ms, in tenths of a millisecond
FRAME_THRESHOLD == 166

SeqsUpTo(S, n) == UNION {[1..k -> S] : k \in 0..n}

---------------------------------------------------------------------------
(* Structured variant: src/trace_analysis.py *)

\* x / 1e6, nanoseconds to milliseconds (result in tenths of a millisecond)
NsToMs(x) == x \div 100000

\* sched_query: WHERE dur > 0
SchedQuery(sched) == SelectSeq(sched, LAMBDA r: r.dur > 0)

\* frame_query: WHERE category = 'SurfaceFlinger' AND name = 'Frame'
FrameQuery(slice) ==
    LET Sel(r) == r.category = "SurfaceFlinger" /\ r.name = "Frame"
        hit == SelectSeq(slice, Sel)
    IN  [i \in 1..Len(hit) |-> [ts |-> hit[i].ts, dur |-> hit[i].dur]]

\* parse_trace with the frame query in a try of its own, so that its failure
\* leaves the scheduling data in the result
parse_trace_partial(c) ==
    IF c.fault = "open" THEN <<None, None>>
    ELSE IF c.fault = "sched_query" THEN <<None, None>>
    ELSE IF c.fault = "frame_query" THEN <<DataFrame(SchedQuery(c.sched)), None>>
    ELSE <<DataFrame(SchedQuery(c.sched)), DataFrame(FrameQuery(c.slice))>>

\* parse_trace: everything runs inside one try; any exception gives None, None
parse_trace(c) ==
    IF c.fault = "open" THEN <<None, None>>
    ELSE IF c.fault = "sched_query" THEN <<None, None>>
    ELSE IF c.fault = "frame_query" THEN <<None, None>>
    ELSE <<DataFrame(SchedQuery(c.sched)), DataFrame(FrameQuery(c.slice))>>

\* sched_df['ts_ms'] = ...; sched_df['dur_ms'] = ...  (columns added in place)
SchedWithMs(rows) ==
    [i \in 1..Len(rows) |->
        [ts |-> rows[i].ts, dur |-> rows[i].dur, cpu |-> rows[i].cpu,
         ts_ms |-> NsToMs(rows[i].ts), dur_ms |-> NsToMs(rows[i].dur)]]

\* frame_df['ts_ms'] = ...; frame_df['dur_ms'] = ...  (columns added in place)
FrameWithMs(rows) ==
    [i \in 1..Len(rows) |->
        [ts |-> rows[i].ts, dur |-> rows[i].dur,
         ts_ms |-> NsToMs(rows[i].ts), dur_ms |-> NsToMs(rows[i].dur)]]

RECURSIVE unique(_)
\* Series.unique(): distinct values in order of first appearance
unique(s) ==
    IF s = <<>> THEN <<>>
    ELSE LET rest == unique(SubSeq(s, 1, Len(s) - 1))
             x == s[Len(s)]
         IN  IF \E i \in 1..Len(rest) : rest[i] = x THEN rest
             ELSE Append(rest, x)

RECURSIVE SeqSum(_)
SeqSum(s) == IF s = <<>> THEN 0 ELSE Head(s) + SeqSum(Tail(s))

SeqMin(s) == CHOOSE x \in {s[i] : i \in 1..Len(s)} :
                \A i \in 1..Len(s) : x <= s[i]
SeqMax(s) == CHOOSE x \in {s[i] : i \in 1..Len(s)} :
                \A i \in 1..Len(s) : x >= s[i]

Column(rows, name) == [i \in 1..Len(rows) |-> rows[i][name]]

\* sched_df[sched_df['cpu'] == cpu]
CpuEvents(rows, cpu) == SelectSeq(rows, LAMBDA r: r.cpu = cpu)

\* total_time / (end_time - start_time) * 100 on float64 scalars.  The value
\* is kept as the exact fraction num/den; den = 0 is the float division by
\* zero, whose result is inf (num > 0) or nan (num = 0), never an exception.
ActiveTime(total_time, start_time, end_time) ==
    [num |-> total_time * 100, den |-> end_time - start_time]

\* the loop body with the window taken over sched_df instead of cpu_events
CpuLoadEntry_GlobalWindow(rows, cpu) ==
    LET cpu_events == CpuEvents(rows, cpu)
        total_time == SeqSum(Column(cpu_events, "dur_ms"))
        start_time == SeqMin(Column(rows, "ts_ms"))
        end_time == SeqMax(Column(rows, "ts_ms"))
    IN  [cpu |-> cpu,
         time |-> Column(cpu_events, "ts_ms"),
         dur |-> Column(cpu_events, "dur_ms"),
         load |-> ActiveTime(total_time, start_time, end_time)]

\* the body of the loop over sched_df['cpu'].unique()
CpuLoadEntry(rows, cpu) ==
    LET cpu_events == CpuEvents(rows, cpu)
        total_time == SeqSum(Column(cpu_events, "dur_ms"))
        start_time == SeqMin(Column(cpu_events, "ts_ms"))
        end_time == SeqMax(Column(cpu_events, "ts_ms"))
    IN  [cpu |-> cpu,
         time |-> Column(cpu_events, "ts_ms"),
         dur |-> Column(cpu_events, "dur_ms"),
         load |-> ActiveTime(total_time, start_time, end_time)]

\* analyze_cpu_load: the dict keeps insertion order, so it is a sequence of
\* entries, one per key, in the order the loop inserts them
analyze_cpu_load(df) ==
    IF df = None \/ df.rows = <<>> THEN None
    ELSE LET rows == SchedWithMs(df.rows)
             cpus == unique(Column(rows, "cpu"))
         IN  Dict([i \in 1..Len(cpus) |-> CpuLoadEntry(rows, cpus[i])])

\* the mask with the comparison turned around
JankMask_Inverted(rows, budget) == SelectSeq(rows, LAMBDA r: r.dur_ms < budget)

\* frame_df[frame_df['dur_ms'] > FRAME_THRESHOLD]
JankMask(rows, budget) == SelectSeq(rows, LAMBDA r: r.dur_ms > budget)

\* analyze_jank of trace_analysis.py: returns (frame_df, jank_frames)
trace_analyze_jank(df, budget) ==
    IF df = None \/ df.rows = <<>> THEN <<None, None>>
    ELSE LET rows == FrameWithMs(df.rows)
         IN  <<DataFrame(rows), DataFrame(JankMask(rows, budget))>>

---------------------------------------------------------------------------
(* Embedded variant: src/systrace_analysis.py *)

\* x / 1000, microseconds to milliseconds (result in tenths of a millisecond)
UsToMs(x) == x \div 100

\* the skip test looking at ts only
MissingField_TsOnly(event) == "ts" \notin DOMAIN event

\* 'ts' not in event or 'dur' not in event
MissingField(event) == "ts" \notin DOMAIN event \/ "dur" \notin DOMAIN event

\* event.get(key) == value
GetIs(event, key, value) == key \in DOMAIN event /\ event[key] = value

\* event.get('cat') == 'load'
IsLoad(event) == GetIs(event, "cat", "load")

\* the frame test without the name
IsFrame_AnyName(event) ==
    GetIs(event, "cat", "gfx") \/ GetIs(event, "cat", "view")

\* event.get('cat') in ['gfx', 'view'] and event.get('name') == 'Frame'
IsFrame(event) ==
    /\ GetIs(event, "cat", "gfx") \/ GetIs(event, "cat", "view")
    /\ GetIs(event, "name", "Frame")

\* event['ts'], event['dur'] of a dict without that key
RaisesKeyError(event) == "ts" \notin DOMAIN event \/ "dur" \notin DOMAIN event

RECURSIVE EventLoop(_, _)
\* for event in events: ...  acc holds cpu_load, frame_times and whether an
\* exception left the loop.
EventLoop(events, acc) ==
    IF events = <<>> \/ acc.raised THEN acc
    ELSE LET event == Head(events)
         IN  IF MissingField(event) THEN EventLoop(Tail(events), acc)
             ELSE IF RaisesKeyError(event)
                  THEN [acc EXCEPT !.raised = TRUE]
             ELSE LET timestamp == UsToMs(event.ts)
                      duration == UsToMs(event.dur)
                      cl == IF IsLoad(event)
                            THEN Append(acc.cpu_load, <<timestamp, duration>>)
                            ELSE acc.cpu_load
                      ft == IF IsFrame(event)
                            THEN Append(acc.frame_times, <<timestamp, duration>>)
                            ELSE acc.frame_times
                  IN  EventLoop(Tail(events),
                                [cpu_load |-> cl, frame_times |-> ft,
                                 raised |-> FALSE])

\* eval(match.group(1)).  kind of the matched text:
\*   "objects"     a literal array of flat objects: evaluates to those dicts
\*   "expression"  an array display whose elements call code: eval runs the
\*                 calls and yields the dicts they build
\*   "scalars"     a literal array of numbers: evaluates, and the loop's
\*                 'ts' not in event raises TypeError on the first element
\*   "undecodable" not a Python expression (or names such as true, null):
\*                 eval raises
Eval(literal) ==
    [raised |-> literal.kind = "undecodable",
     executed |-> literal.kind = "expression",
     dicts |-> literal.kind \in {"objects", "expression"},
     events |-> literal.events]

\* parse_systrace_html.  capture: exists (os.path.exists), script (a script
\* tag holding 'var traceEvents'), literal (None when the regex has no match)
parse_systrace_html(c) ==
    LET Failed(text) == [cpu_load |-> None, frame_times |-> None,
                         raised |-> FALSE, executed |-> FALSE,
                         printed |-> <<[kind |-> "diag", text |-> text]>>]
        Raised(ran) == [cpu_load |-> None, frame_times |-> None,
                        raised |-> TRUE, executed |-> ran, printed |-> <<>>]
    IN  IF ~c.exists THEN Failed("file does not exist")
        ELSE IF ~c.script THEN Failed("traceEvents not found")
        ELSE IF c.literal = None THEN Failed("cannot parse traceEvents")
        ELSE LET ev == Eval(c.literal)
             IN  IF ev.raised THEN Raised(FALSE)
                 ELSE IF ~ev.dicts
                      THEN IF ev.events = <<>>
                           THEN [cpu_load |-> List(<<>>), frame_times |-> List(<<>>),
                                 raised |-> FALSE, executed |-> ev.executed,
                                 printed |-> <<>>]
                           ELSE Raised(ev.executed)
                 ELSE LET acc == EventLoop(ev.events,
                                           [cpu_load |-> <<>>, frame_times |-> <<>>,
                                            raised |-> FALSE])
                      IN  IF acc.raised THEN Raised(ev.executed)
                          ELSE [cpu_load |-> List(acc.cpu_load),
                                frame_times |-> List(acc.frame_times),
                                raised |-> FALSE, executed |-> ev.executed,
                                printed |-> <<>>]

\* analyze_jank of systrace_analysis.py
systrace_analyze_jank(ft, budget) ==
    List(SelectSeq(ft.items, LAMBDA f: f[2] > budget))

---------------------------------------------------------------------------
(* The two main functions *)

\* if cpu_load is None or frame_times is None: return
\* if sched_df is None or frame_df is None: return
ParseFailed(a, b) == a = None \/ b = None

\* truth value of a list, a dict or None
Truthy(v) == v # None /\ v.items # <<>>

\* frame_df is not None and not frame_df.empty
HasRows(df) == df # None /\ df.rows # <<>>

NoChart == [shown |-> FALSE, cpu |-> FALSE, states |-> FALSE,
            frames |-> FALSE, jank |-> FALSE]

\* print(f"... {len(jank_frames)} ... {FRAME_THRESHOLD}ms")
JankLine(n, budget) == [kind |-> "jank", count |-> n, threshold |-> budget]

\* print(f"CPU {cpu}: {data['load']:.1f}%") for cpu, data in cpu_load.items()
CpuLines(cl) ==
    [i \in 1..Len(cl.items) |->
        [kind |-> "cpu", cpu |-> cl.items[i].cpu, load |-> cl.items[i].load]]

\* systrace main: parse_systrace_html and the None check after it
SystraceParse ==
    /\ variant = "embedded" /\ pc = "parse"
    /\ LET r == parse_systrace_html(capture)
       IN  /\ executed' = r.executed
           /\ report' = report \o r.printed
           /\ IF r.raised
              THEN /\ pc' = "done" /\ outcome' = "raised"
                   /\ UNCHANGED <<cpu_load, frame_times>>
              ELSE /\ cpu_load' = r.cpu_load
                   /\ frame_times' = r.frame_times
                   /\ IF ParseFailed(r.cpu_load, r.frame_times)
                      THEN pc' = "done" /\ outcome' = "returned_early"
                      ELSE pc' = "analyze" /\ outcome' = outcome
    /\ UNCHANGED <<window, threads, variant, capture, threshold, sched_df, frame_df,
                   jank_frames, chart>>

\* systrace main: analyze_jank and the print of the jank count
SystraceAnalyze ==
    /\ variant = "embedded" /\ pc = "analyze"
    /\ jank_frames' = systrace_analyze_jank(frame_times, threshold)
    /\ report' = Append(report, JankLine(Len(jank_frames'.items), threshold))
    /\ pc' = "visualize"
    /\ UNCHANGED <<window, threads, variant, capture, threshold, sched_df, frame_df, cpu_load,
                   frame_times, executed, outcome, chart>>

\* systrace visualize_data, then main returns
SystraceVisualize ==
    /\ variant = "embedded" /\ pc = "visualize"
    /\ IF ~Truthy(cpu_load) \/ ~Truthy(frame_times)
       THEN /\ report' = Append(report, [kind |-> "diag", text |-> "no data"])
            /\ chart' = chart
       ELSE /\ report' = report
            /\ chart' = [shown |-> TRUE, cpu |-> TRUE, states |-> FALSE,
                         frames |-> TRUE, jank |-> Truthy(jank_frames)]
    /\ pc' = "done" /\ outcome' = "completed"
    /\ UNCHANGED <<window, threads, variant, capture, threshold, sched_df, frame_df, cpu_load,
                   frame_times, jank_frames, executed>>

\* trace main: parse_trace and the None check after it
TraceParse ==
    /\ variant = "structured" /\ pc = "parse"
    /\ LET r == parse_trace(capture)
       IN  /\ sched_df' = r[1]
           /\ frame_df' = r[2]
           /\ report' = IF capture.fault # "none"
                        THEN Append(report, [kind |-> "diag", text |-> "parse failed"])
                        ELSE report
           /\ IF ParseFailed(r[1], r[2])
              THEN pc' = "done" /\ outcome' = "returned_early"
              ELSE pc' = "analyze" /\ outcome' = outcome
    /\ UNCHANGED <<window, threads, variant, capture, threshold, cpu_load, frame_times,
                   jank_frames, executed, chart>>

\* trace main: analyze_cpu_load(sched_df) and analyze_jank(frame_df); both
\* add their ms columns to the DataFrame they are given
TraceAnalyze ==
    /\ variant = "structured" /\ pc = "analyze"
    /\ cpu_load' = analyze_cpu_load(sched_df)
    /\ sched_df' = IF HasRows(sched_df)
                   THEN DataFrame(SchedWithMs(sched_df.rows)) ELSE sched_df
    /\ LET r == trace_analyze_jank(frame_df, threshold)
       IN  /\ frame_times' = r[1]
           /\ jank_frames' = r[2]
    /\ frame_df' = IF HasRows(frame_df)
                   THEN DataFrame(FrameWithMs(frame_df.rows)) ELSE frame_df
    /\ pc' = "print"
    /\ UNCHANGED <<window, threads, variant, capture, threshold, executed, outcome, report,
                   chart>>

\* trace main: the printed analysis results
TracePrint ==
    /\ variant = "structured" /\ pc = "print"
    /\ report' = report
                 \o (IF Truthy(cpu_load)
                     THEN <<[kind |-> "cpu_header"]>> \o CpuLines(cpu_load)
                     ELSE <<>>)
                 \o (IF jank_frames # None
                     THEN <<JankLine(Len(jank_frames.rows), threshold)>>
                     ELSE <<>>)
    /\ pc' = "visualize"
    /\ UNCHANGED <<window, threads, variant, capture, threshold, sched_df, frame_df, cpu_load,
                   frame_times, jank_frames, executed, outcome, chart>>

\* trace visualize_data, then main returns
TraceVisualize ==
    /\ variant = "structured" /\ pc = "visualize"
    /\ chart' = [shown |-> TRUE, cpu |-> Truthy(cpu_load),
                 states |-> HasRows(sched_df),
                 frames |-> HasRows(frame_times),
                 jank |-> HasRows(frame_times) /\ jank_frames.rows # <<>>]
    /\ pc' = "done" /\ outcome' = "completed"
    /\ UNCHANGED <<window, threads, variant, capture, threshold, sched_df, frame_df, cpu_load,
                   frame_times, jank_frames, executed, report>>

Next ==
    \/ SystraceParse
    \/ SystraceAnalyze
    \/ SystraceVisualize
    \/ TraceParse
    \/ TraceAnalyze
    \/ TracePrint
    \/ TraceVisualize

---------------------------------------------------------------------------
(* Viewer: src/logkit_ui.py *)

MaxStarts == 2    \* calls of start_collection that create threads

Str(s) == [py |-> "str", s |-> s]

hasattr(obj, name) == name \in DOMAIN obj
SetAttr(obj, name, value) ==
    [f \in DOMAIN obj \cup {name} |-> IF f = name THEN value ELSE obj[f]]

\* str.lower() on the keywords used here
Lower(s) == IF s = "Error" THEN "error" ELSE s

\* the item of the device combo box that stands for "no device"
NoDevice == "no device"

\* LogThread.__init__: running = True.  looping tells whether run has not yet
\* left its while loop.  (The keywords argument is a reference to the
\* window's dict and is read through window.keywords.)
LogThread(device_serial) ==
    [cls |-> "LogThread", device_serial |-> device_serial,
     running |-> TRUE, looping |-> TRUE]

\* ResourceThread.__init__: running = True
ResourceThread(package_name, device_serial) ==
    [cls |-> "ResourceThread", package_name |-> package_name,
     device_serial |-> device_serial, running |-> TRUE, looping |-> TRUE]

\* CameraAnalyzer.__init__ followed by init_ui and refresh_devices, which
\* leaves the first attached device (or None) in device_serial.  The
\* attributes log_thread and resource_thread do not exist yet.  keywords is a
\* dict: a function from keyword to colour.  The text of keyword_input is the
\* sequence of its comma separated keyword:colour pairs.
CameraAnalyzer(first_device) ==
    [device_serial |-> first_device, keyword_input |-> <<>>,
     keywords |-> <<>>, warning |-> "none", closed |-> FALSE]

\* for pair in text.split(','): keyword, color = pair.split(':');
\*     self.keywords[keyword.lower()] = color
RECURSIVE AddPairs(_, _)
AddPairs(keywords, pairs) ==
    IF pairs = <<>> THEN keywords
    ELSE AddPairs(SetAttr(keywords, Lower(Head(pairs).keyword), Head(pairs).color),
                  Tail(pairs))

\* slot of device_combo.currentTextChanged
on_device_selected(device) ==
    /\ variant = "viewer" /\ ~window.closed
    /\ window' = [window EXCEPT !.device_serial =
                      IF device # "" /\ device # NoDevice THEN Str(device) ELSE None]
    /\ UNCHANGED <<threads, analysis>>

\* the user edits the keyword_input line
textEdited(text) ==
    /\ variant = "viewer" /\ ~window.closed
    /\ window' = [window EXCEPT !.keyword_input = text]
    /\ UNCHANGED <<threads, analysis>>

\* slot of the start button
start_collection ==
    /\ variant = "viewer" /\ ~window.closed
    /\ Len(threads) < 2 * MaxStarts
    /\ IF window.device_serial = None
       THEN /\ window' = [window EXCEPT !.warning = "device"]
            /\ UNCHANGED threads
       ELSE LET keywords == AddPairs(window.keywords, window.keyword_input)
            IN  IF DOMAIN keywords = {}
                THEN /\ window' = [window EXCEPT !.keywords = keywords,
                                                 !.warning = "keywords"]
                     /\ UNCHANGED threads
                ELSE /\ threads' = threads \o
                            <<LogThread(window.device_serial),
                              ResourceThread("com.android.camera", window.device_serial)>>
                     /\ window' = SetAttr(SetAttr([window EXCEPT !.keywords = keywords],
                                                  "log_thread", Len(threads) + 1),
                                          "resource_thread", Len(threads) + 2)
    /\ UNCHANGED analysis

\* one evaluation of `while self.running` in the run method of thread i
run(i) ==
    /\ variant = "viewer"
    /\ threads[i].looping
    /\ threads' = [threads EXCEPT ![i].looping = threads[i].running]
    /\ UNCHANGED <<window, analysis>>

\* the window is closed
closeEvent ==
    /\ variant = "viewer" /\ ~window.closed
    /\ LET Stop(ts, attr) == IF hasattr(window, attr)
                             THEN [ts EXCEPT ![window[attr]].running = FALSE]
                             ELSE ts
       IN  threads' = Stop(Stop(threads, "log_thread"), "resource_thread")
    /\ window' = [window EXCEPT !.closed = TRUE]
    /\ UNCHANGED analysis

\* what the user can type and select
Pairs == {[keyword |-> "Error", color |-> "red"],
          [keyword |-> "warning", color |-> "yellow"]}
Texts == {<<>>} \cup {<<p>> : p \in Pairs}
DeviceTexts == {"", NoDevice, "emulator-5554"}

ViewerNext ==
    \/ \E device \in DeviceTexts : on_device_selected(device)
    \/ \E text \in Texts : textEdited(text)
    \/ start_collection
    \/ \E i \in 1..Len(threads) : run(i)
    \/ closeEvent

---------------------------------------------------------------------------
(* Captures and initial states *)

MaxRows == 2      \* rows per table / events per literal in Spec
MaxSched == 3     \* scheduling rows in SpecCpu
MaxFrames == 3    \* frames in SpecJank
MaxEvents == 3    \* raw events in SpecEmbedded

Faults == {"none", "open", "sched_query", "frame_query"}
LiteralKinds == {"objects", "expression", "scalars", "undecodable"}

\* budgets in tenths of a millisecond: 10 ms, 16.6 ms, 20 ms
Budgets == {100, FRAME_THRESHOLD, 200}

\* rows of the sched table, ns
SchedRows == [ts : {0, 5000000, 20000000}, dur : {5000000, 10000000}, cpu : {0, 1}]
SmallSchedRows == {[ts |-> 0, dur |-> 5000000, cpu |-> 1],
                   [ts |-> 5000000, dur |-> 10000000, cpu |-> 0],
                   [ts |-> 20000000, dur |-> 0, cpu |-> 0]}

\* rows of the slice table, ns
SliceRow(ts, dur, category, name) ==
    [ts |-> ts, dur |-> dur, category |-> category, name |-> name]
FrameRows == {SliceRow(ts, dur, "SurfaceFlinger", "Frame") :
                 ts \in {0, 16000000, 40000000},
                 dur \in {10000000, 15000000, 16600000, 20000000}}
SmallSliceRows == {SliceRow(0, 10000000, "SurfaceFlinger", "Frame"),
                   SliceRow(16000000, 20000000, "SurfaceFlinger", "Frame"),
                   SliceRow(40000000, 20000000, "gfx", "Draw")}

\* raw events of the traceEvents array, us
FrameEvents == {[ts |-> ts, dur |-> dur, cat |-> "gfx", name |-> "Frame"] :
                   ts \in {0, 16000, 40000},
                   dur \in {10000, 15000, 16600, 20000}}
Events == {[ts |-> 0, dur |-> 5000, cat |-> "load", name |-> "cpu"],
           [ts |-> 1000, dur |-> 20000, cat |-> "load", name |-> "Frame"],
           [ts |-> 2000, dur |-> 20000, cat |-> "gfx", name |-> "Frame"],
           [ts |-> 3000, dur |-> 10000, cat |-> "view", name |-> "Frame"],
           [ts |-> 4000, dur |-> 20000, cat |-> "gfx", name |-> "Draw"],
           [ts |-> 5000, dur |-> 20000, cat |-> "sched", name |-> "Frame"],
           [ts |-> 6000, dur |-> 20000, name |-> "Frame"],
           [ts |-> 7000, dur |-> 20000, cat |-> "view"],
           [dur |-> 20000, cat |-> "load", name |-> "cpu"],
           [ts |-> 9000, cat |-> "gfx", name |-> "Frame"]}
SmallEvents == {[ts |-> 0, dur |-> 5000, cat |-> "load", name |-> "cpu"],
                [ts |-> 2000, dur |-> 20000, cat |-> "gfx", name |-> "Frame"],
                [ts |-> 4000, dur |-> 20000, cat |-> "sched", name |-> "switch"],
                [ts |-> 9000, cat |-> "gfx", name |-> "Frame"]}

StructuredCapture(fault, sched, slice) ==
    [fault |-> fault, sched |-> sched, slice |-> slice]
EmbeddedCapture(exists, script, literal) ==
    [exists |-> exists, script |-> script, literal |-> literal]
Literal(kind, events) == [kind |-> kind, events |-> events]

\* one ordinary capture of each variant
SampleStructured ==
    StructuredCapture("none",
        <<[ts |-> 0, dur |-> 5000000, cpu |-> 0],
          [ts |-> 20000000, dur |-> 10000000, cpu |-> 0]>>,
        <<SliceRow(0, 10000000, "SurfaceFlinger", "Frame"),
          SliceRow(16000000, 20000000, "SurfaceFlinger", "Frame")>>)
SampleEmbedded ==
    EmbeddedCapture(TRUE, TRUE, Literal("objects",
        <<[ts |-> 0, dur |-> 5000, cat |-> "load", name |-> "cpu"],
          [ts |-> 2000, dur |-> 20000, cat |-> "gfx", name |-> "Frame"]>>))

\* the state in which main starts on capture c
Start(v, c, budget) ==
    /\ variant = v
    /\ capture = c
    /\ threshold = budget
    /\ pc = "parse"
    /\ sched_df = None
    /\ frame_df = None
    /\ cpu_load = None
    /\ frame_times = None
    /\ jank_frames = None
    /\ executed = FALSE
    /\ outcome = "running"
    /\ report = <<>>
    /\ chart = NoChart
    /\ window = None
    /\ threads = <<>>

\* both variants, every capture-level failure, small tables
Init ==
    \/ \E fault \in Faults, sched \in SeqsUpTo(SmallSchedRows, MaxRows),
          slice \in SeqsUpTo(SmallSliceRows, MaxRows) :
          Start("structured", StructuredCapture(fault, sched, slice), FRAME_THRESHOLD)
    \/ \E exists \in BOOLEAN, script \in BOOLEAN,
          literal \in {None} \cup {Literal(k, e) : k \in LiteralKinds,
                                      e \in SeqsUpTo(SmallEvents, MaxRows)} :
          Start("embedded", EmbeddedCapture(exists, script, literal), FRAME_THRESHOLD)

\* structured variant over every scheduling table
InitCpu ==
    \/ \E sched \in SeqsUpTo(SchedRows, MaxSched) :
          Start("structured",
                StructuredCapture("none", sched, SampleStructured.slice),
                FRAME_THRESHOLD)
    \/ Start("embedded", SampleEmbedded, FRAME_THRESHOLD)

\* both analyze_jank functions over every frame sequence and budget
InitJank ==
    \E budget \in Budgets :
        \/ \E slice \in SeqsUpTo(FrameRows, MaxFrames) :
              Start("structured",
                    StructuredCapture("none", SampleStructured.sched, slice),
                    budget)
        \/ \E events \in SeqsUpTo(FrameEvents, MaxFrames) :
              Start("embedded",
                    EmbeddedCapture(TRUE, TRUE, Literal("objects", events)),
                    budget)

\* embedded variant over every array of raw events
InitEmbedded ==
    \/ \E kind \in LiteralKinds, events \in SeqsUpTo(Events, MaxEvents) :
          Start("embedded",
                EmbeddedCapture(TRUE, TRUE, Literal(kind, events)),
                FRAME_THRESHOLD)
    \/ Start("structured", SampleStructured, FRAME_THRESHOLD)

Spec == Init /\ [][Next]_vars
SpecCpu == InitCpu /\ [][Next]_vars
SpecJank == InitJank /\ [][Next]_vars
SpecEmbedded == InitEmbedded /\ [][Next]_vars

---------------------------------------------------------------------------
(* Properties *)

\* main has passed the analysis step
Analyzed == pc \in {"print", "visualize", "done"} /\ outcome # "returned_early"
                /\ outcome # "raised"

\* the elements of s at the indices idx, in index order
Selected(s, idx) ==
    [k \in 1..Cardinality(idx) |->
        s[CHOOSE i \in idx : Cardinality({j \in idx : j < i}) = k - 1]]

\* indices of the frames handed to analyze_jank whose duration exceeds the
\* budget; the structured rows are compared on their raw ns duration, the
\* budget being in tenths of a millisecond
OverBudgetTrace(rows, budget) ==
    {i \in 1..Len(rows) : rows[i].dur > budget * 100000}
OverBudgetSystrace(items, budget) ==
    {i \in 1..Len(items) : items[i][2] > budget}

\* C1: for every frame sequence and budget the jank result is exactly the
\* frames whose duration is strictly greater than the budget, in input order
C1_JankExactlyOverBudget ==
    Analyzed =>
        IF variant = "embedded"
        THEN jank_frames = List(Selected(frame_times.items,
                                OverBudgetSystrace(frame_times.items, threshold)))
        ELSE /\ frame_df # None
             /\ jank_frames = DataFrame(Selected(FrameWithMs(frame_df.rows),
                                  OverBudgetTrace(frame_df.rows, threshold)))

\* C1 restricted to the inputs on which analyze_jank returns a frame series
JankExactWhenReturned ==
    (Analyzed /\ jank_frames # None) =>
        IF variant = "embedded"
        THEN jank_frames = List(Selected(frame_times.items,
                                OverBudgetSystrace(frame_times.items, threshold)))
        ELSE jank_frames = DataFrame(Selected(frame_times.rows,
                                  OverBudgetTrace(frame_times.rows, threshold)))

\* the structured analyze_jank returns None exactly on an empty frame relation
JankNoneOnlyOnEmpty ==
    Analyzed => (jank_frames = None <=> (variant = "structured" /\ frame_df.rows = <<>>))

\* the jank result analyze_jank returns for the pass's frames under budget b
JankUnder(b) ==
    IF variant = "embedded" THEN systrace_analyze_jank(frame_times, b)
    ELSE trace_analyze_jank(frame_df, b)[2]

\* the frames of a jank result, as a sequence
JankSeq(j) == IF j.py = "list" THEN j.items ELSE j.rows

\* result hi is contained in result lo: the same value, or frame series of
\* which every frame of hi is a frame of lo and hi has no more frames
JankContained(hi, lo) ==
    \/ hi = lo
    \/ /\ hi # None /\ lo # None
       /\ \A i \in 1..Len(JankSeq(hi)) :
             \E j \in 1..Len(JankSeq(lo)) : JankSeq(hi)[i] = JankSeq(lo)[j]
       /\ Len(JankSeq(hi)) <= Len(JankSeq(lo))

\* C10: for budgets b1 <= b2 the jank subset under b2 is contained in the
\* jank subset under b1; jank_frames is the result under threshold
C10_JankMonotoneInBudget ==
    Analyzed =>
        \A b \in Budgets :
            /\ b >= threshold => JankContained(JankUnder(b), jank_frames)
            /\ b <= threshold => JankContained(jank_frames, JankUnder(b))

\* a pass whose jank subset strictly shrinks under a larger budget
C10_Witness ==
    /\ Analyzed /\ jank_frames # None
    /\ \E b \in Budgets :
          /\ b > threshold
          /\ Len(JankSeq(JankUnder(b))) < Len(JankSeq(jank_frames))
          /\ Len(JankSeq(JankUnder(b))) > 0

---------------------------------------------------------------------------
(* CPU load: structured variant *)

\* indices of the scheduling events of core c
CoreIdx(rows, c) == {i \in 1..Len(rows) : rows[i].cpu = c}

\* the cores that occur among the scheduling events
Cores(rows) == {rows[i].cpu : i \in 1..Len(rows)}

RECURSIVE DurMsSum(_, _)
\* sum of the durations, in ms, of the events at indices idx
DurMsSum(rows, idx) ==
    IF idx = {} THEN 0
    ELSE LET i == CHOOSE i \in idx : TRUE
         IN  rows[i].dur \div 100000 + DurMsSum(rows, idx \ {i})

\* max timestamp minus min timestamp, in ms, of the events at indices idx
WindowMs(rows, idx) ==
    LET ts == {rows[i].ts \div 100000 : i \in idx}
    IN  (CHOOSE hi \in ts : \A x \in ts : hi >= x)
        - (CHOOSE lo \in ts : \A x \in ts : lo <= x)

\* the entry of core c in the cpu_load mapping
EntryOf(cl, c) == cl.items[CHOOSE k \in 1..Len(cl.items) : cl.items[k].cpu = c]

\* the scenario of the spec: (ts=0,dur=5), (ts=5,dur=5), (ts=20,dur=10) on cpu 0
ThreeEvents ==
    <<[ts |-> 0, dur |-> 5000000, cpu |-> 0],
      [ts |-> 5000000, dur |-> 5000000, cpu |-> 0],
      [ts |-> 20000000, dur |-> 10000000, cpu |-> 0]>>

\* C2: a core's utilization is the sum of its events' durations divided by
\* the width of its own events' timestamp window, times 100; it is what
\* analyze_cpu_load gives on that core's events alone; the three-event
\* scenario gives 100
C2_UtilizationOwnWindow ==
    (Analyzed /\ variant = "structured") =>
        LET rows == sched_df.rows
        IN  /\ \A c \in Cores(rows) :
                  LET own == CoreIdx(rows, c)
                      alone == analyze_cpu_load(DataFrame(Selected(rows, own)))
                  IN  /\ cpu_load # None
                      /\ \E k \in 1..Len(cpu_load.items) : cpu_load.items[k].cpu = c
                      /\ EntryOf(cpu_load, c).load.num = 100 * DurMsSum(rows, own)
                      /\ EntryOf(cpu_load, c).load.den = WindowMs(rows, own)
                      /\ EntryOf(cpu_load, c).load = alone.items[1].load
            /\ capture.sched = ThreeEvents =>
                  /\ EntryOf(cpu_load, 0).load.den > 0
                  /\ EntryOf(cpu_load, 0).load.num = 100 * EntryOf(cpu_load, 0).load.den

\* two cores analysed, core 0's own window (5 ms) narrower than the window of
\* the whole table (20 ms)
C2_Witness ==
    /\ Analyzed /\ variant = "structured" /\ cpu_load # None
    /\ Cores(sched_df.rows) = {0, 1}
    /\ WindowMs(sched_df.rows, CoreIdx(sched_df.rows, 0)) = 50
    /\ WindowMs(sched_df.rows, 1..Len(sched_df.rows)) = 200
    /\ EntryOf(cpu_load, 0).load.den = 50

\* the three-event scenario analysed
C2_WitnessScenario ==
    /\ pc = "done" /\ variant = "structured" /\ capture.sched = ThreeEvents
    /\ EntryOf(cpu_load, 0).load = [num |-> 20000, den |-> 200]

\* C3: a core with fewer than two events gets utilization 0 and an empty time
\* series, and no utilization is the result of dividing by a zero-width window
C3_FewEventsZeroUtilization ==
    (Analyzed /\ variant = "structured" /\ cpu_load # None) =>
        \A k \in 1..Len(cpu_load.items) :
            LET e == cpu_load.items[k]
            IN  /\ e.load.den # 0
                /\ Cardinality(CoreIdx(sched_df.rows, e.cpu)) < 2 =>
                      (e.load.num = 0 /\ e.time = <<>>)

\* what the code does for a core with a single event: the division by the
\* zero-width window is performed and the time series holds the event
SingleEventDividesByZero ==
    (Analyzed /\ variant = "structured" /\ cpu_load # None) =>
        \A k \in 1..Len(cpu_load.items) :
            LET e == cpu_load.items[k]
            IN  Cardinality(CoreIdx(sched_df.rows, e.cpu)) = 1 =>
                   (e.load.den = 0 /\ e.load.num > 0 /\ Len(e.time) = 1)

\* C4: the keys of the cpu_load mapping are exactly the distinct cpu ids of
\* the scheduling events
C4_KeysAreDistinctCpus ==
    (Analyzed /\ variant = "structured") =>
        /\ cpu_load.py = "dict"
        /\ {cpu_load.items[k].cpu : k \in 1..Len(cpu_load.items)}
               = Cores(sched_df.rows)
        /\ \A k1, k2 \in 1..Len(cpu_load.items) :
               cpu_load.items[k1].cpu = cpu_load.items[k2].cpu => k1 = k2

\* C4 restricted to the inputs on which analyze_cpu_load returns a mapping
KeysWhenReturned ==
    (Analyzed /\ variant = "structured" /\ cpu_load # None) =>
        /\ {cpu_load.items[k].cpu : k \in 1..Len(cpu_load.items)}
               = Cores(sched_df.rows)
        /\ \A k1, k2 \in 1..Len(cpu_load.items) :
               cpu_load.items[k1].cpu = cpu_load.items[k2].cpu => k1 = k2

\* analyze_cpu_load returns None exactly on an empty scheduling relation
CpuLoadNoneOnlyOnEmpty ==
    (Analyzed /\ variant = "structured") =>
        (cpu_load = None <=> sched_df.rows = <<>>)

---------------------------------------------------------------------------
(* Empty captures and capture-level failures: both variants *)

\* the capture was parsed and holds no scheduling event and no frame event
EmptyCapture ==
    /\ pc # "parse" /\ outcome \in {"running", "completed"}
    /\ IF variant = "embedded"
       THEN cpu_load.items = <<>> /\ frame_times.items = <<>>
       ELSE sched_df.rows = <<>> /\ frame_df.rows = <<>>

\* C5: a capture that parses but holds no scheduling and no frame events gives
\* an empty cpu_load mapping and an empty jank result (empty frame series,
\* empty jank subset), and the pass completes without an error
C5_EmptyCaptureEmptyResult ==
    (EmptyCapture /\ pc = "done") =>
        /\ outcome = "completed"
        /\ IF variant = "embedded"
           THEN /\ cpu_load = List(<<>>)
                /\ frame_times = List(<<>>)
                /\ jank_frames = List(<<>>)
           ELSE /\ cpu_load = Dict(<<>>)
                /\ frame_times = DataFrame(<<>>)
                /\ jank_frames = DataFrame(<<>>)

\* what the code does on an empty capture: the embedded variant gives empty
\* lists and reports 0 jank frames, the structured variant gives None for the
\* mapping, the frame series and the jank subset and reports no jank count
EmptyCaptureAsCoded ==
    (EmptyCapture /\ pc = "done") =>
        /\ outcome = "completed"
        /\ IF variant = "embedded"
           THEN /\ cpu_load = List(<<>>) /\ frame_times = List(<<>>)
                /\ jank_frames = List(<<>>)
                /\ \E i \in 1..Len(report) : report[i] = JankLine(0, threshold)
           ELSE /\ cpu_load = None /\ frame_times = None /\ jank_frames = None
                /\ report = <<>>

\* the capture-level failures of the two variants
CaptureFailure ==
    IF variant = "embedded"
    THEN ~capture.exists \/ ~capture.script \/ capture.literal = None
    ELSE capture.fault \in {"open", "sched_query", "frame_query"}

\* a printed line that carries a result
IsResultLine(line) == line.kind \in {"jank", "cpu", "cpu_header"}

\* C6: on a capture-level failure the pass ends in the failure outcome (a
\* diagnostic, then main returns) and reports nothing: no analysis step runs,
\* no jank count or utilization line is printed, no chart is drawn, and main
\* holds no result, not even one of the two series
C6_FailureReportsNothing ==
    CaptureFailure =>
        /\ pc \in {"parse", "done"}
        /\ pc = "done" =>
              /\ outcome = "returned_early"
              /\ \E i \in 1..Len(report) : report[i].kind = "diag"
        /\ \A i \in 1..Len(report) : ~IsResultLine(report[i])
        /\ chart = NoChart
        /\ sched_df = None /\ frame_df = None
        /\ cpu_load = None /\ frame_times = None /\ jank_frames = None

\* a structured pass ended by a failing frame query although the scheduling
\* query had rows to give
C6_Witness ==
    /\ pc = "done" /\ variant = "structured"
    /\ capture.fault = "frame_query"
    /\ \E i \in 1..Len(capture.sched) : capture.sched[i].dur > 0

\* an embedded pass ended by a capture without an extractable literal
C6_WitnessEmbedded ==
    /\ pc = "done" /\ variant = "embedded"
    /\ capture.exists /\ capture.script /\ capture.literal = None

---------------------------------------------------------------------------
(* Raw events: embedded variant *)

\* the pass reads a literal that evaluates to an array of objects
ReadsObjects ==
    /\ variant = "embedded"
    /\ capture.exists /\ capture.script /\ capture.literal # None
    /\ capture.literal.kind \in {"objects", "expression"}

\* indices of the raw events that carry both ts and dur
Complete(events) ==
    {i \in 1..Len(events) : {"ts", "dur"} \subseteq DOMAIN events[i]}

\* indices of the complete events of category load
LoadIdx(events) ==
    {i \in Complete(events) : "cat" \in DOMAIN events[i] /\ events[i].cat = "load"}

\* indices of the complete events of category gfx or view named Frame
FrameIdx(events) ==
    {i \in Complete(events) :
        /\ "cat" \in DOMAIN events[i] /\ events[i].cat \in {"gfx", "view"}
        /\ "name" \in DOMAIN events[i] /\ events[i].name = "Frame"}

\* (ts, dur) of each event in ms (tenths), the raw values being microseconds
InMs(events) ==
    [i \in 1..Len(events) |-> <<events[i].ts \div 100, events[i].dur \div 100>>]

\* the capture with the events that lack ts or dur taken out of the literal
WithoutIncomplete(c) ==
    [c EXCEPT !.literal.events = Selected(c.literal.events, Complete(c.literal.events))]

\* C7: a raw event without ts or without dur is dropped, contributing to
\* neither series, and the drop does not abort the pass: the two series are
\* those of the capture without such events, and the pass returns its result
C7_IncompleteEventsDropped ==
    (ReadsObjects /\ pc # "parse") =>
        LET kept == parse_systrace_html(WithoutIncomplete(capture))
        IN  /\ outcome # "raised"
            /\ cpu_load # None /\ frame_times # None
            /\ cpu_load = kept.cpu_load
            /\ frame_times = kept.frame_times
            /\ Len(cpu_load.items) + Len(frame_times.items)
                   <= Cardinality(Complete(capture.literal.events))
            /\ pc = "done" => outcome = "completed"

\* a finished pass over a capture with an incomplete event followed by events
\* that reached both series
C7_Witness ==
    /\ ReadsObjects /\ pc = "done" /\ outcome = "completed"
    /\ Len(capture.literal.events) = 3
    /\ 1 \notin Complete(capture.literal.events)
    /\ Len(cpu_load.items) = 1 /\ Len(frame_times.items) = 1

\* C8: a complete raw event of category load goes to the scheduling series,
\* one of category gfx or view named Frame goes to the frame series, any other
\* goes to neither; no event is in both; both series keep capture order
C8_EventRouting ==
    (ReadsObjects /\ pc # "parse") =>
        LET events == capture.literal.events
        IN  /\ cpu_load = List(InMs(Selected(events, LoadIdx(events))))
            /\ frame_times = List(InMs(Selected(events, FrameIdx(events))))
            /\ LoadIdx(events) \cap FrameIdx(events) = {}
            /\ Len(cpu_load.items) + Len(frame_times.items)
                   = Cardinality(LoadIdx(events) \cup FrameIdx(events))

\* a parsed capture with a routed load event, a routed frame event and a
\* complete event of an unrelated kind that reached neither series
C8_Witness ==
    /\ ReadsObjects /\ pc = "done"
    /\ Len(cpu_load.items) = 1 /\ Len(frame_times.items) = 1
    /\ Cardinality(Complete(capture.literal.events)) = 3

\* the extracted literal is not a well-formed array of flat objects
NotFlatObjects ==
    /\ variant = "embedded"
    /\ capture.exists /\ capture.script /\ capture.literal # None
    /\ \/ capture.literal.kind \in {"expression", "undecodable"}
       \/ capture.literal.kind = "scalars" /\ capture.literal.events # <<>>

\* C9: the literal is decoded as data only: one that is not a well-formed
\* array of flat objects is rejected with a failure, and the literal text is
\* never evaluated as an executable expression
C9_LiteralDecodedNotEvaluated ==
    /\ ~executed
    /\ (NotFlatObjects /\ pc # "parse") =>
           (pc = "done" /\ outcome \in {"returned_early", "raised"})

\* what the code does with an array display that calls code: eval runs it and
\* the pass goes on to report results
ExpressionIsExecuted ==
    (NotFlatObjects /\ capture.literal.kind = "expression" /\ pc = "done")
        => (executed /\ outcome = "completed")

---------------------------------------------------------------------------
(* The printed summary: structured variant *)

\* main has printed its analysis results
Printed == variant = "structured" /\ pc \in {"visualize", "done"}
               /\ outcome \in {"running", "completed"}

\* the core ids of the per-core utilization lines, in the order printed
PrintedCpus ==
    LET lines == SelectSeq(report, LAMBDA l: l.kind = "cpu")
    IN  [i \in 1..Len(lines) |-> lines[i].cpu]

\* C11: the summary lists the per-core utilization lines in ascending core-id
\* order, whatever order the cores first appear in among the scheduling events
C11_SummarySortedByCoreId ==
    Printed =>
        \A i, j \in 1..Len(PrintedCpus) :
            i < j => PrintedCpus[i] < PrintedCpus[j]

\* what the code does: one line per core, in the order in which the cores
\* first appear among the scheduling events
SummaryInFirstAppearanceOrder ==
    Printed =>
        LET rows == sched_df.rows
            First(c) == CHOOSE i \in CoreIdx(rows, c) :
                            \A j \in CoreIdx(rows, c) : i <= j
        IN  /\ {PrintedCpus[i] : i \in 1..Len(PrintedCpus)} = Cores(rows)
            /\ \A i, j \in 1..Len(PrintedCpus) :
                  i < j => First(PrintedCpus[i]) < First(PrintedCpus[j])

---------------------------------------------------------------------------
(* Durations of the normalized events: both variants *)

\* rows and raw events with a negative, a zero and a positive dur (Perfetto
\* writes a negative dur for a slice that never ended)
SignedSchedRows == {[ts |-> 0, dur |-> d, cpu |-> 0] : d \in {-100000, 0, 5000000}}
SignedSliceRows == {SliceRow(0, d, "SurfaceFlinger", "Frame") :
                       d \in {-100000, 0, 20000000}}
SignedEvents == {[ts |-> 0, dur |-> d, cat |-> c, name |-> "Frame"] :
                    d \in {-100, 0, 20000}, c \in {"load", "gfx"}}

\* both variants over captures whose durations have either sign
InitDur ==
    \/ \E sched \in SeqsUpTo(SignedSchedRows, MaxRows),
          slice \in SeqsUpTo(SignedSliceRows, MaxRows) :
          Start("structured", StructuredCapture("none", sched, slice),
                FRAME_THRESHOLD)
    \/ \E events \in SeqsUpTo(SignedEvents, MaxRows) :
          Start("embedded",
                EmbeddedCapture(TRUE, TRUE, Literal("objects", events)),
                FRAME_THRESHOLD)

SpecDur == InitDur /\ [][Next]_vars

\* the durations, in ms, of the scheduling events and of the frame events the
\* analyzers of the pass are given
SchedDurations ==
    IF variant = "embedded"
    THEN {cpu_load.items[i][2] : i \in 1..Len(cpu_load.items)}
    ELSE {sched_df.rows[i].dur \div 100000 : i \in 1..Len(sched_df.rows)}
FrameDurations ==
    IF variant = "embedded"
    THEN {frame_times.items[i][2] : i \in 1..Len(frame_times.items)}
    ELSE {frame_df.rows[i].dur \div 100000 : i \in 1..Len(frame_df.rows)}

\* the parse succeeded and its events are with main
Normalized == pc # "parse" /\ outcome \in {"running", "completed"}

\* C12: every normalized scheduling event and every normalized frame event
\* that reaches the analyzers has duration_ms >= 0, whatever the raw dur
C12_DurationsNonNegative ==
    Normalized =>
        /\ \A d \in SchedDurations : d >= 0
        /\ \A d \in FrameDurations : d >= 0

\* what the code does: only the scheduling query of the structured variant
\* looks at dur (WHERE dur > 0); everywhere else the raw dur passes with its
\* sign, so the durations are those of the capture
DurationsAsCoded ==
    Normalized =>
        IF variant = "embedded"
        THEN LET ev == capture.literal.events
             IN  /\ SchedDurations =
                       {ev[i].dur \div 100 : i \in {j \in 1..Len(ev) : ev[j].cat = "load"}}
                 /\ FrameDurations =
                       {ev[i].dur \div 100 : i \in {j \in 1..Len(ev) : ev[j].cat = "gfx"}}
        ELSE /\ \A d \in SchedDurations : d > 0
             /\ FrameDurations =
                   {capture.slice[i].dur \div 100000 : i \in 1..Len(capture.slice)}

---------------------------------------------------------------------------
(* The frame series across analyze_jank: both variants *)

\* the step of main that calls analyze_jank
CallsAnalyzeJank == pc = "analyze" /\ pc' # "analyze"

\* C13: analyze_jank hands back the frame sequence it was given, unchanged
\* (same frames, order, timestamps and durations), and leaves the caller's
\* sequence unmodified.  The embedded main keeps frame_times as its series;
\* the structured main takes the returned series and keeps the frame_df it
\* passed in.
C13_FrameSeriesUnchanged ==
    [][CallsAnalyzeJank =>
          IF variant = "embedded"
          THEN frame_times' = frame_times
          ELSE frame_times' = frame_df /\ frame_df' = frame_df]_vars

\* what the code does in the structured variant: on an empty frame_df it
\* returns None for the series; otherwise it adds the columns ts_ms and dur_ms
\* to the caller's frame_df in place and returns that same object, whose rows
\* keep their number, order, ts and dur
AnalyzeJankAsCoded ==
    [][(CallsAnalyzeJank /\ variant = "structured") =>
          IF frame_df.rows = <<>>
          THEN frame_times' = None /\ frame_df' = frame_df
          ELSE /\ frame_times' = frame_df'
               /\ Len(frame_df'.rows) = Len(frame_df.rows)
               /\ \A i \in 1..Len(frame_df.rows) :
                     /\ frame_df'.rows[i].ts = frame_df.rows[i].ts
                     /\ frame_df'.rows[i].dur = frame_df.rows[i].dur
                     /\ DOMAIN frame_df'.rows[i] = {"ts", "dur", "ts_ms", "dur_ms"}
                     /\ DOMAIN frame_df.rows[i] = {"ts", "dur"}]_vars

---------------------------------------------------------------------------
(* Viewer: the collection threads when the window closes *)

\* the viewer after construction, with or without an attached device
InitViewer ==
    /\ variant = "viewer"
    /\ capture = None
    /\ threshold = FRAME_THRESHOLD
    /\ pc = "done"
    /\ sched_df = None
    /\ frame_df = None
    /\ cpu_load = None
    /\ frame_times = None
    /\ jank_frames = None
    /\ executed = FALSE
    /\ outcome = "running"
    /\ report = <<>>
    /\ chart = NoChart
    /\ \E first_device \in {None, Str("emulator-5554")} :
          window = CameraAnalyzer(first_device)
    /\ threads = <<>>

SpecViewer == InitViewer /\ [][ViewerNext]_vars

Closed == variant = "viewer" /\ window.closed

\* C14: once closeEvent has run, every LogThread and ResourceThread that
\* start_collection ever started has running = False, however many times
\* start_collection was called.
C14_CloseStopsEveryThread ==
    Closed => \A i \in 1..Len(threads) : ~threads[i].running

\* what the code does: closeEvent clears the flag of the two threads that
\* the attributes log_thread and resource_thread name, which are those of the
\* last call; the threads of every earlier call keep running = True
CloseStopsLastPairOnly ==
    Closed => \A i \in 1..Len(threads) :
                 threads[i].running = (i + 2 <= Len(threads))

\* with a single start_collection before the close, all threads are stopped
\* and their loops can only end
CloseAfterOneStartStopsAll ==
    (Closed /\ Len(threads) <= 2) => \A i \in 1..Len(threads) : ~threads[i].running

\* a thread of an earlier call never leaves its loop
LeakedThreadKeepsLooping ==
    \A i \in 1..Len(threads) : i + 2 <= Len(threads) => threads[i].looping

====
